---- MODULE Spec2Model ----
(***************************************************************************)
(* Model of the table extraction of DocumentAIService                      *)
(* (src/src/services/documentAIService.js): spatialTextToTable and         *)
(* detectColumnPositions, their caller extractTextAsTable with its         *)
(* line-based fallback, extractTable and extractStructuredData; and of the *)
(* API key rotation (getNextClient, getNextKey) and waitForFileActive of   *)
(* the Gemini services.                                                    *)
(*                                                                         *)
(* Numbers.  Coordinates and confidences are JavaScript doubles in [0,1];  *)
(* the model keeps them as integers in thousandths (0.02 is 20, 1.0 is     *)
(* 1000), so every comparison of the code is the same comparison here.     *)
(* Text is a sequence of one-character strings, so that length, trim and   *)
(* concatenation are computed and not assumed.                             *)
(***************************************************************************)
EXTENDS Integers, Sequences, FiniteSets, TLC

\* one call of spatialTextToTable: argument, position, locals, return value
VARIABLES page, pc, result, textBlocks, rows, columnStarts, tableRows, earlier

\* one call of extractStructuredData: argument, position, the tables array,
\* the value extractTextAsTable returned and the strategies it ran
VARIABLES document, docPc, tables, textTable, ran

\* key rotation state of one service, the keys handed out, the error thrown
VARIABLES rotation, handed, keyError

\* one call of waitForFileActive: position, argument, clock, last answer of
\* the file lookup, and how the call ended
VARIABLES waitPc, maxWaitTime, elapsed, lookup, waitOutcome

spatialVars == <<page, pc, result, textBlocks, rows, columnStarts, tableRows, earlier>>

docVars == <<document, docPc, tables, textTable, ran>>

keyVars == <<rotation, handed, keyError>>

waitVars == <<waitPc, maxWaitTime, elapsed, lookup, waitOutcome>>

vars == <<spatialVars, docVars, keyVars, waitVars>>

(***************************************************************************)
(* Bounds of the model                                                     *)
(***************************************************************************)
\* longest page.lines list of the exhaustive input families
MaxLines == 3

\* most lines of document.text in the exhaustive input family
MaxTextLines == 2

\* most body rows of a structured table in the exhaustive input family
MaxBodyRows == 2

\* most calls of getNextClient / getNextKey in one run
MaxKeyCalls == 95

\* largest maxWaitTime argument of waitForFileActive, in seconds
MaxWaitSeconds == 6

\* longest time a file lookup takes to answer, in seconds
MaxLookupSeconds == 1

\* longest sequence of calls made on one service object
MaxCalls == 3

(***************************************************************************)
(* Program constants (thousandths)                                         *)
(***************************************************************************)
rowTolerance == 20
columnTolerance == 30
columnSlack == 20
lastColumnEnd == 1000
headerMaxLen == 30
defaultConfidence == 850

(***************************************************************************)
(* Generic helpers                                                         *)
(***************************************************************************)
Range(s) == {s[i] : i \in DOMAIN s}

Abs(n) == IF n < 0 THEN 0 - n ELSE n

Max(a, b) == IF a > b THEN a ELSE b

RECURSIVE SumSeq(_)
SumSeq(s) == IF s = <<>> THEN 0 ELSE Head(s) + SumSeq(Tail(s))

RECURSIVE Flat(_)
Flat(ss) == IF ss = <<>> THEN <<>> ELSE Head(ss) \o Flat(Tail(ss))

\* Array.prototype.sort with comparator (a, b) => key(a) - key(b), keys[i]
\* being the key of s[i]: a stable sort, so elements with equal keys keep
\* their relative order.
StableSort(s, keys) ==
  LET n == Len(s)
      rank(i) == 1 + Cardinality({j \in 1..n :
                        \/ keys[j] < keys[i]
                        \/ keys[j] = keys[i] /\ j < i})
  IN  [k \in 1..n |-> s[CHOOSE i \in 1..n : rank(i) = k]]

(***************************************************************************)
(* Text                                                                    *)
(***************************************************************************)
Whitespace == {" ", "\t", "\n", "\r"}

Alpha == {"a","b","c","d","e","f","g","h","i","j","k","l","m",
          "n","o","p","q","r","s","t","u","v","w","x","y","z",
          "A","B","C","D","E","F","G","H","I","J","K","L","M",
          "N","O","P","Q","R","S","T","U","V","W","X","Y","Z"}

RECURSIVE TrimStart(_)
TrimStart(t) ==
  IF t = <<>> THEN t
  ELSE IF Head(t) \in Whitespace THEN TrimStart(Tail(t)) ELSE t

RECURSIVE TrimEnd(_)
TrimEnd(t) ==
  IF t = <<>> THEN t
  ELSE IF t[Len(t)] \in Whitespace THEN TrimEnd(SubSeq(t, 1, Len(t) - 1)) ELSE t

\* String.prototype.trim
Trim(t) == TrimEnd(TrimStart(t))

\* /[a-zA-Z]/.test(t)
HasAlpha(t) == \E i \in DOMAIN t : t[i] \in Alpha

(***************************************************************************)
(* spatialTextToTable, step by step                                        *)
(***************************************************************************)
\* line.layout.confidence absent or 0: both take the default (x || 0.85)
NoConfidence == 0

\* vertices.reduce((sum, v) => sum + v.c, 0) / vertices.length; the boxes of
\* the input families have four vertices whose sum is a multiple of four,
\* so the integer division is exact
avgX(vertices) == SumSeq([i \in DOMAIN vertices |-> vertices[i].x]) \div Len(vertices)

avgY(vertices) == SumSeq([i \in DOMAIN vertices |-> vertices[i].y]) \div Len(vertices)

vertexX(vertices, i) == IF i \in DOMAIN vertices THEN vertices[i].x ELSE 0

\* the body of page.lines.forEach: a line without layout/boundingPoly or
\* without vertices is skipped, any other line yields one text block
lineSkipped(line) == ~line.layout \/ Len(line.vertices) = 0

\* variant: a line without a confidence value gets confidence 0
textBlockOfZero(line) ==
  [text       |-> Trim(line.text),
   x          |-> avgX(line.vertices),
   y          |-> avgY(line.vertices),
   width      |-> Abs(vertexX(line.vertices, 2) - vertexX(line.vertices, 1)),
   confidence |-> IF line.confidence = NoConfidence
                  THEN 0 ELSE line.confidence]

textBlockOf(line) ==
  [text       |-> Trim(line.text),
   x          |-> avgX(line.vertices),
   y          |-> avgY(line.vertices),
   width      |-> Abs(vertexX(line.vertices, 2) - vertexX(line.vertices, 1)),
   confidence |-> IF line.confidence = NoConfidence
                  THEN defaultConfidence ELSE line.confidence]

\* variant: a line without a resolvable bounding box is kept at (0, 0)
\* instead of being skipped
RECURSIVE extractTextBlocksKeepAll(_)
extractTextBlocksKeepAll(lines) ==
  IF lines = <<>> THEN <<>>
  ELSE IF lineSkipped(Head(lines))
       THEN <<[text |-> Trim(Head(lines).text), x |-> 0, y |-> 0, width |-> 0,
               confidence |-> defaultConfidence]>>
              \o extractTextBlocksKeepAll(Tail(lines))
       ELSE <<textBlockOf(Head(lines))>> \o extractTextBlocksKeepAll(Tail(lines))

RECURSIVE extractTextBlocks(_)
extractTextBlocks(lines) ==
  IF lines = <<>> THEN <<>>
  ELSE IF lineSkipped(Head(lines)) THEN extractTextBlocks(Tail(lines))
  ELSE <<textBlockOf(Head(lines))>> \o extractTextBlocks(Tail(lines))

xsOf(blocks) == [i \in DOMAIN blocks |-> blocks[i].x]

ysOf(blocks) == [i \in DOMAIN blocks |-> blocks[i].y]

\* variant: the blocks of a row are left in the order of the walk
sortByXMissing(blocks) == blocks

sortByX(blocks) == StableSort(blocks, xsOf(blocks))

\* variant: the blocks are walked in input order, the sort by y is missing
sortByYMissing(blocks) == blocks

sortByY(blocks) == StableSort(blocks, ysOf(blocks))

\* variant: the row loop compares with the column tolerance
RECURSIVE groupLoopWide(_, _, _, _)
groupLoopWide(sorted, i, currentRow, acc) ==
  IF i > Len(sorted)
  THEN IF Len(currentRow) > 0 THEN Append(acc, sortByX(currentRow)) ELSE acc
  ELSE LET block == sorted[i]
           prevBlock == sorted[i - 1]
           yDiff == Abs(block.y - prevBlock.y)
       IN  IF yDiff < columnTolerance
           THEN groupLoopWide(sorted, i + 1, Append(currentRow, block), acc)
           ELSE groupLoopWide(sorted, i + 1, <<block>>,
                              Append(acc, sortByX(currentRow)))

\* variant: a block is compared with the first block of the current row
RECURSIVE groupLoopAnchor(_, _, _, _)
groupLoopAnchor(sorted, i, currentRow, acc) ==
  IF i > Len(sorted)
  THEN IF Len(currentRow) > 0 THEN Append(acc, sortByX(currentRow)) ELSE acc
  ELSE LET block == sorted[i]
           anchor == currentRow[1]
           yDiff == Abs(block.y - anchor.y)
       IN  IF yDiff < rowTolerance
           THEN groupLoopAnchor(sorted, i + 1, Append(currentRow, block), acc)
           ELSE groupLoopAnchor(sorted, i + 1, <<block>>,
                                Append(acc, sortByX(currentRow)))

\* variant: a step of exactly the tolerance still continues the row
RECURSIVE groupLoopInclusive(_, _, _, _)
groupLoopInclusive(sorted, i, currentRow, acc) ==
  IF i > Len(sorted)
  THEN IF Len(currentRow) > 0 THEN Append(acc, sortByX(currentRow)) ELSE acc
  ELSE LET block == sorted[i]
           prevBlock == sorted[i - 1]
           yDiff == Abs(block.y - prevBlock.y)
       IN  IF yDiff <= rowTolerance
           THEN groupLoopInclusive(sorted, i + 1, Append(currentRow, block), acc)
           ELSE groupLoopInclusive(sorted, i + 1, <<block>>,
                                   Append(acc, sortByX(currentRow)))

\* variant: the row still open when the loop ends is not added
RECURSIVE groupLoopNoFlush(_, _, _, _)
groupLoopNoFlush(sorted, i, currentRow, acc) ==
  IF i > Len(sorted)
  THEN acc
  ELSE LET block == sorted[i]
           prevBlock == sorted[i - 1]
           yDiff == Abs(block.y - prevBlock.y)
       IN  IF yDiff < rowTolerance
           THEN groupLoopNoFlush(sorted, i + 1, Append(currentRow, block), acc)
           ELSE groupLoopNoFlush(sorted, i + 1, <<block>>,
                                 Append(acc, sortByX(currentRow)))

\* the row-grouping loop over the blocks sorted by y
RECURSIVE groupLoop(_, _, _, _)
groupLoop(sorted, i, currentRow, acc) ==
  IF i > Len(sorted)
  THEN IF Len(currentRow) > 0 THEN Append(acc, sortByX(currentRow)) ELSE acc
  ELSE LET block == sorted[i]
           prevBlock == sorted[i - 1]
           yDiff == Abs(block.y - prevBlock.y)
       IN  IF yDiff < rowTolerance
           THEN groupLoop(sorted, i + 1, Append(currentRow, block), acc)
           ELSE groupLoop(sorted, i + 1, <<block>>,
                          Append(acc, sortByX(currentRow)))

groupRows(blocks) ==
  LET sorted == sortByY(blocks)
  IN  groupLoop(sorted, 2, <<sorted[1]>>, <<>>)

\* variant: each coordinate is compared with the coordinate before it
RECURSIVE columnLoopPrevious(_, _, _, _)
columnLoopPrevious(xCoords, tolerance, i, columns) ==
  IF i > Len(xCoords) THEN columns
  ELSE IF Abs(xCoords[i] - xCoords[i - 1]) > tolerance
       THEN columnLoopPrevious(xCoords, tolerance, i + 1, Append(columns, xCoords[i]))
       ELSE columnLoopPrevious(xCoords, tolerance, i + 1, columns)

\* variant: a coordinate is compared with the first boundary
RECURSIVE columnLoopFirst(_, _, _, _)
columnLoopFirst(xCoords, tolerance, i, columns) ==
  IF i > Len(xCoords) THEN columns
  ELSE LET x == xCoords[i]
           firstCol == columns[1]
       IN  IF Abs(x - firstCol) > tolerance
           THEN columnLoopFirst(xCoords, tolerance, i + 1, Append(columns, x))
           ELSE columnLoopFirst(xCoords, tolerance, i + 1, columns)

RECURSIVE columnLoop(_, _, _, _)
columnLoop(xCoords, tolerance, i, columns) ==
  IF i > Len(xCoords) THEN columns
  ELSE LET x == xCoords[i]
           lastCol == columns[Len(columns)]
       IN  IF Abs(x - lastCol) > tolerance
           THEN columnLoop(xCoords, tolerance, i + 1, Append(columns, x))
           ELSE columnLoop(xCoords, tolerance, i + 1, columns)

\* variant: the loop starts one coordinate too late
detectColumnPositionsSkipping(xCoords, tolerance) ==
  IF Len(xCoords) = 0 THEN <<>>
  ELSE columnLoop(xCoords, tolerance, 3, <<xCoords[1]>>)

detectColumnPositions(xCoords, tolerance) ==
  IF Len(xCoords) = 0 THEN <<>>
  ELSE columnLoop(xCoords, tolerance, 2, <<xCoords[1]>>)

\* variant: the x coordinates are handed to column detection unsorted
allXUnsorted(blocks) == xsOf(blocks)

allX(blocks) == StableSort(xsOf(blocks), xsOf(blocks))

\* columnStarts[idx + 1] || 1.0
nextColX(colStarts, idx) ==
  IF idx + 1 \in DOMAIN colStarts /\ colStarts[idx + 1] # 0
  THEN colStarts[idx + 1] ELSE lastColumnEnd

\* variant: the slack moves the whole window of a column to the left
columnMatchesShifted(block, colStarts, idx) ==
  /\ block.x >= colStarts[idx] - columnSlack
  /\ block.x < nextColX(colStarts, idx) - columnSlack

columnMatches(block, colStarts, idx) ==
  /\ block.x >= colStarts[idx] - columnSlack
  /\ block.x < nextColX(colStarts, idx)

\* columnStarts.findIndex(...): the first matching index, 0 for "none" (-1)
columnIndex(block, colStarts) ==
  IF \E idx \in DOMAIN colStarts : columnMatches(block, colStarts, idx)
  THEN CHOOSE idx \in DOMAIN colStarts :
         /\ columnMatches(block, colStarts, idx)
         /\ \A j \in 1..(idx - 1) : ~columnMatches(block, colStarts, j)
  ELSE 0

emptyRow(colStarts) ==
  [cells       |-> [i \in DOMAIN colStarts |-> <<>>],
   confidences |-> [i \in DOMAIN colStarts |-> 0]]

\* variant: the text is pushed onto the row instead of stored at its column
placeBlockPush(tr, block, colStarts) ==
  [cells       |-> Append(tr.cells, block.text),
   confidences |-> Append(tr.confidences, block.confidence)]

placeBlock(tr, block, colStarts) ==
  LET columnIdx == columnIndex(block, colStarts)
  IN  IF columnIdx >= 1
      THEN [cells       |-> [tr.cells EXCEPT ![columnIdx] =
                               Trim(@ \o <<" ">> \o block.text)],
            confidences |-> [tr.confidences EXCEPT ![columnIdx] =
                               Max(@, block.confidence)]]
      ELSE tr

RECURSIVE placeBlocks(_, _, _)
placeBlocks(tr, row, colStarts) ==
  IF row = <<>> THEN tr
  ELSE placeBlocks(placeBlock(tr, Head(row), colStarts), Tail(row), colStarts)

buildRow(row, colStarts) == placeBlocks(emptyRow(colStarts), row, colStarts)

buildGrid(rws, colStarts) == [r \in DOMAIN rws |-> buildRow(rws[r], colStarts)]

\* variant: the length test is the wrong way round
isHeaderLong(firstRow) ==
  \A i \in DOMAIN firstRow : Len(firstRow[i]) > 0 /\ Len(firstRow[i]) > headerMaxLen

\* firstRow.every(cell => cell.length > 0 && cell.length < 30)
isHeader(firstRow) ==
  \A i \in DOMAIN firstRow : Len(firstRow[i]) > 0 /\ Len(firstRow[i]) < headerMaxLen

NullTable == [isNull |-> TRUE]

\* confidences.flat().reduce((a, b) => a + b, 0) / confidences.flat().length
\* variant: cells without a fragment (confidence 0) are left out of the mean
averageOfNonZero(confidences) ==
  LET NonZero(n) == n # 0
      counted == SelectSeq(Flat(confidences), NonZero)
  IN  IF counted = <<>> THEN 0 ELSE SumSeq(counted) \div Len(counted)

averageOf(confidences) == SumSeq(Flat(confidences)) \div Len(Flat(confidences))

\* variant: columnCount is taken from the header row, absent when no row
\* was promoted
tableOfHeaderWidth(grid, colStarts) ==
  LET promote == Len(grid) > 0 /\ isHeader(grid[1].cells)
      rest == IF promote THEN Tail(grid) ELSE grid
      cells == [r \in DOMAIN rest |-> rest[r].cells]
      confidences == [r \in DOMAIN rest |-> rest[r].confidences]
      headers == IF promote THEN grid[1].cells ELSE <<>>
  IN  IF Len(cells) = 0 THEN NullTable
      ELSE [isNull            |-> FALSE,
            hasHeaders        |-> promote,
            headers           |-> headers,
            rows              |-> cells,
            cellConfidences   |-> confidences,
            rowCount          |-> Len(cells),
            columnCount       |-> Len(headers),
            averageConfidence |-> averageOf(confidences),
            extracted         |-> "spatial-clustering"]

\* variant: rowCount is taken before the header row is removed
tableOfCountingHeader(grid, colStarts) ==
  LET promote == Len(grid) > 0 /\ isHeader(grid[1].cells)
      rest == IF promote THEN Tail(grid) ELSE grid
      cells == [r \in DOMAIN rest |-> rest[r].cells]
      confidences == [r \in DOMAIN rest |-> rest[r].confidences]
  IN  IF Len(cells) = 0 THEN NullTable
      ELSE [isNull            |-> FALSE,
            hasHeaders        |-> promote,
            headers           |-> IF promote THEN grid[1].cells ELSE <<>>,
            rows              |-> cells,
            cellConfidences   |-> confidences,
            rowCount          |-> Len(grid),
            columnCount       |-> Len(colStarts),
            averageConfidence |-> averageOf(confidences),
            extracted         |-> "spatial-clustering"]

tableOf(grid, colStarts) ==
  LET promote == Len(grid) > 0 /\ isHeader(grid[1].cells)
      rest == IF promote THEN Tail(grid) ELSE grid
      cells == [r \in DOMAIN rest |-> rest[r].cells]
      confidences == [r \in DOMAIN rest |-> rest[r].confidences]
  IN  IF Len(cells) = 0 THEN NullTable
      ELSE [isNull            |-> FALSE,
            hasHeaders        |-> promote,
            headers           |-> IF promote THEN grid[1].cells ELSE <<>>,
            rows              |-> cells,
            cellConfidences   |-> confidences,
            rowCount          |-> Len(cells),
            columnCount       |-> Len(colStarts),
            averageConfidence |-> averageOf(confidences),
            extracted         |-> "spatial-clustering"]

\* the locals of one call and its return value
noLocals == [textBlocks |-> <<>>, rows |-> <<>>, columnStarts |-> <<>>,
             tableRows |-> <<>>, result |-> NullTable]

\* variant: the fragment list lives on the service object and is not cleared,
\* so the fragments of the previous call's page are still in it
runSpatialRemembering(pg) ==
  LET kept == IF earlier = <<>> THEN <<>>
              ELSE extractTextBlocks(earlier[Len(earlier)].page.lines)
  IN  IF ~pg.hasLines \/ Len(pg.lines) = 0 THEN noLocals
      ELSE LET blocks == kept \o extractTextBlocks(pg.lines)
           IN  IF Len(blocks) = 0 THEN noLocals
               ELSE LET rws == groupRows(blocks)
                        colStarts == detectColumnPositions(allX(blocks), columnTolerance)
                        grid == buildGrid(rws, colStarts)
                    IN  [textBlocks |-> blocks, rows |-> rws,
                         columnStarts |-> colStarts, tableRows |-> grid,
                         result |-> tableOf(grid, colStarts)]

runSpatial(pg) ==
  IF ~pg.hasLines \/ Len(pg.lines) = 0 THEN noLocals
  ELSE LET blocks == extractTextBlocks(pg.lines)
       IN  IF Len(blocks) = 0 THEN noLocals
           ELSE LET rws == groupRows(blocks)
                    colStarts == detectColumnPositions(allX(blocks), columnTolerance)
                    grid == buildGrid(rws, colStarts)
                IN  [textBlocks |-> blocks, rows |-> rws,
                     columnStarts |-> colStarts, tableRows |-> grid,
                     result |-> tableOf(grid, colStarts)]

\* variant: the sort by y of line 557 is done in place on page.lines
pageAfterSortingLines(pg) ==
  [pg EXCEPT !.lines =
     StableSort(pg.lines, [i \in DOMAIN pg.lines |->
                             IF lineSkipped(pg.lines[i]) THEN 0
                             ELSE avgY(pg.lines[i].vertices)])]

\* the argument after the call: page.lines is only read (forEach, 501), the
\* text blocks are new objects (531) and the sorts work on copies of the
\* block list (557, 569), so no property of the page or of a line is written
pageAfter(pg) == pg

spatialTextToTable(pg) == runSpatial(pg).result

(***************************************************************************)
(* Inputs: the pages a call can receive                                    *)
(***************************************************************************)
\* a line whose bounding box is centred on (x, y)
Line(x, y, text, conf) ==
  [layout     |-> TRUE,
   vertices   |-> <<[x |-> x - 10, y |-> y - 4], [x |-> x + 10, y |-> y - 4],
                    [x |-> x + 10, y |-> y + 4], [x |-> x - 10, y |-> y + 4]>>,
   text       |-> text,
   confidence |-> conf]

NoLayoutLine == [layout |-> FALSE, vertices |-> <<>>, text |-> <<>>, confidence |-> NoConfidence]

NoVerticesLine == [layout |-> TRUE, vertices |-> <<>>, text |-> <<"z">>, confidence |-> 900]

\* text and confidence of the i-th line of a generated page: two texts in
\* turn, and a confidence that is high, absent or middling in turn
TextAt(i) == <<<<"A", "b">>, <<"C", "d">>>>[((i - 1) % 2) + 1]

ConfAt(i) == <<900, NoConfidence, 500>>[((i - 1) % 3) + 1]

\* geometry family: every list of lines on a small lattice that straddles
\* both tolerances (19 / 21 apart in y, 29 / 31 apart in x), lines without
\* a resolvable bounding box included
GeomX == {100, 129, 131}

GeomY == {500, 519, 540}

GeomSpots ==
  {<<"at", x, y>> : x \in GeomX, y \in GeomY}
    \cup {<<"nolayout", 0, 0>>, <<"novertices", 0, 0>>}

GeomLine(i, spot) ==
  IF spot[1] = "nolayout" THEN NoLayoutLine
  ELSE IF spot[1] = "novertices" THEN NoVerticesLine
  ELSE Line(spot[2], spot[3], TextAt(i), ConfAt(i))

\* the pages of the geometry family with n lines
GeomPages(n) ==
  {[hasLines |-> TRUE, lines |-> [i \in 1..n |-> GeomLine(i, sp[i])]] :
      sp \in [1..n -> GeomSpots]}

\* content family: line i sits in cell ((i-1) \div 2, (i-1) % 2) of a
\* two-column layout, with every text
Long(n) == [i \in 1..n |-> "q"]

ContentTexts == {<<>>, <<"A", "b">>, <<"1", "2">>, <<" ", "x", " ">>,
                 Long(headerMaxLen - 1), Long(headerMaxLen)}

ContentLine(i, text) ==
  Line(100 + 400 * ((i - 1) % 2), 100 + 100 * ((i - 1) \div 2), text, ConfAt(i))

\* the pages of the content family with n lines
ContentPages(n) ==
  {[hasLines |-> TRUE, lines |-> [i \in 1..n |-> ContentLine(i, ts[i])]] :
      ts \in [1..n -> ContentTexts]}

\* merge family: line 1 alone on an upper row, the other lines in one cell
\* of a lower row, listed right to left, with every text
MergeTexts == {<<>>, <<"A", "b">>, <<"C", "d">>}

MergeLine(i, text) ==
  IF i = 1 THEN Line(100, 400, text, ConfAt(i))
  ELSE Line(130 - 10 * i, 500, text, ConfAt(i))

MergePages(n) ==
  {[hasLines |-> TRUE, lines |-> [i \in 1..n |-> MergeLine(i, ts[i])]] :
      ts \in [1..n -> MergeTexts]}

\* the scenarios of the specification's testable properties
SingleFragment == <<Line(500, 500, <<"X">>, 900)>>

HeaderScenario ==
  <<Line(100, 100, <<"N","a","m","e">>, 900),
    Line(500, 100, <<"P","r","i","c","e">>, 900),
    Line(900, 100, <<"Q","t","y">>, 900),
    Line(100, 200, <<"W","i","d","g","e","t">>, 900),
    Line(500, 200, <<"9",".","9","9">>, 900),
    Line(900, 200, <<"3">>, 900)>>

NonHeaderScenario ==
  <<Line(100, 100, <<"1","2","3","4">>, 900),
    Line(500, 100, <<"5","6","7","8">>, 900),
    Line(100, 200, <<"A","b">>, 900),
    Line(500, 200, <<"C","d">>, 900)>>

GridText(r, c) == <<<<"A", "B", "C">>[r], <<"1", "2", "3">>[c]>>

GridCoord(k) == 100 + 400 * (k - 1)

Grid3x3 ==
  [i \in 1..9 |-> Line(GridCoord(((i - 1) % 3) + 1), GridCoord(((i - 1) \div 3) + 1),
                       GridText(((i - 1) \div 3) + 1, ((i - 1) % 3) + 1), 900)]

\* a chain in y: each line 0.015 below the one before, 0.045 in all
ChainScenario ==
  <<Line(100, 500, <<"A","b">>, 900),
    Line(500, 515, <<"C","d">>, 900),
    Line(900, 530, <<"E","f">>, 900),
    Line(100, 545, <<"G","h">>, 900),
    Line(100, 700, <<"1","2">>, 900)>>

\* a line whose (zero-width) bounding box lies on the right page edge, so
\* that its centre is at centerX = 1.0
EdgeLine(y, text, conf) ==
  [layout     |-> TRUE,
   vertices   |-> <<[x |-> 1000, y |-> y - 4], [x |-> 1000, y |-> y - 4],
                    [x |-> 1000, y |-> y + 4], [x |-> 1000, y |-> y + 4]>>,
   text       |-> text,
   confidence |-> conf]

EdgeScenario ==
  <<Line(100, 500, <<"A","b">>, 900),
    EdgeLine(500, <<"C","d">>, 900),
    Line(100, 600, <<"1","2">>, 900)>>

\* three lines on one exact centerY, and three on one exact centerX
OneRowScenario ==
  <<Line(500, 500, <<"C","d">>, 900),
    Line(100, 500, <<"A","b">>, 900),
    Line(900, 500, Long(headerMaxLen), 900)>>

OneColumnScenario ==
  <<Line(500, 520, <<"C","d">>, 900),
    Line(500, 500, <<>>, 900),
    Line(500, 540, <<"E","f">>, 900)>>

Reverse(s) == [i \in DOMAIN s |-> s[Len(s) + 1 - i]]

\* three lines whose centerX are 0.1, 0.14 and 0.16: the third is within the
\* tolerance of the second boundary but not of the first
NearColumnsScenario ==
  <<Line(160, 700, <<"E","f">>, 900),
    Line(100, 500, <<"1","2">>, 900),
    Line(140, 600, <<"C","d">>, 900)>>

BaseScenarios ==
  {SingleFragment, HeaderScenario, NonHeaderScenario, Grid3x3,
   ChainScenario, EdgeScenario, OneRowScenario, OneColumnScenario,
   NearColumnsScenario}

Scenarios ==
  LET base == BaseScenarios
  IN  base \cup {Reverse(s) : s \in base}

ScenarioPages == {[hasLines |-> TRUE, lines |-> s] : s \in Scenarios}

\* a page object without a lines property
NoLinesPage == [hasLines |-> FALSE, lines |-> <<>>]

\* the pages a call is made with
IsInputPage(pg) ==
  \/ \E n \in 0..MaxLines : pg \in GeomPages(n)
  \/ \E n \in 0..MaxLines : pg \in ContentPages(n)
  \/ \E n \in 0..MaxLines : pg \in MergePages(n)
  \/ pg \in ScenarioPages
  \/ pg = NoLinesPage

(***************************************************************************)
(* State machine: one call of spatialTextToTable on a page                 *)
(***************************************************************************)
\* the parts of the state a specification does not exercise stay as they are
SpatialIdle ==
  /\ page = [hasLines |-> FALSE, lines |-> <<>>]
  /\ pc = "idle"
  /\ result = NullTable
  /\ textBlocks = <<>>
  /\ rows = <<>>
  /\ columnStarts = <<>>
  /\ tableRows = <<>>
  /\ earlier = <<>>

DocIdle ==
  /\ document = [text |-> <<>>, hasPages |-> FALSE, pages |-> <<>>, pageTables |-> <<>>]
  /\ docPc = "idle"
  /\ tables = <<>>
  /\ textTable = NullTable
  /\ ran = <<>>

KeysIdle ==
  /\ rotation = [service |-> "none", count |-> 0, limit |-> 0,
                 currentKeyIndex |-> 0, requestCount |-> 0]
  /\ handed = <<>>
  /\ keyError = 0

WaitIdle ==
  /\ waitPc = "idle"
  /\ maxWaitTime = 0
  /\ elapsed = 0
  /\ lookup = [error |-> FALSE, state |-> "none", status |-> 0]
  /\ waitOutcome = [kind |-> "none"]

Init ==
  /\ IsInputPage(page)
  /\ pc = "call"
  /\ result = NullTable
  /\ textBlocks = <<>>
  /\ rows = <<>>
  /\ columnStarts = <<>>
  /\ tableRows = <<>>
  /\ earlier = <<>>
  /\ DocIdle /\ KeysIdle /\ WaitIdle

\* one call: a synchronous function of its argument; the locals and the
\* return value are recorded, the service object is not written
SpatialTextToTable ==
  /\ pc = "call"
  /\ LET run == runSpatial(page)
     IN  /\ textBlocks' = run.textBlocks
         /\ rows' = run.rows
         /\ columnStarts' = run.columnStarts
         /\ tableRows' = run.tableRows
         /\ result' = run.result
  /\ page' = pageAfter(page)
  /\ pc' = "done"
  /\ UNCHANGED <<earlier, docVars, keyVars, waitVars>>

Next == SpatialTextToTable

Spec == Init /\ [][Next]_vars

(***************************************************************************)
(* State machine: a sequence of calls on the same service object           *)
(***************************************************************************)
\* the pages of the call sequences
CallPages == {[hasLines |-> TRUE, lines |-> s] : s \in BaseScenarios} \cup {NoLinesPage}

InitCalls ==
  /\ page \in CallPages
  /\ pc = "call"
  /\ result = NullTable
  /\ textBlocks = <<>>
  /\ rows = <<>>
  /\ columnStarts = <<>>
  /\ tableRows = <<>>
  /\ earlier = <<>>
  /\ DocIdle /\ KeysIdle /\ WaitIdle

\* the caller takes the return value and calls again with another page; the
\* locals of the finished call are gone
CallAgain ==
  /\ pc = "done"
  /\ Len(earlier) < MaxCalls - 1
  /\ earlier' = Append(earlier, [page |-> page, result |-> result])
  /\ page' \in CallPages
  /\ pc' = "call"
  /\ result' = NullTable
  /\ textBlocks' = <<>>
  /\ rows' = <<>>
  /\ columnStarts' = <<>>
  /\ tableRows' = <<>>
  /\ UNCHANGED <<docVars, keyVars, waitVars>>

NextCalls == SpatialTextToTable \/ CallAgain

SpecCalls == InitCalls /\ [][NextCalls]_vars

Done == pc = "done"

(***************************************************************************)
(* Vocabulary of the claims                                                *)
(***************************************************************************)
Returned == Done /\ ~result.isNull

\* no line of the page has a resolvable bounding box
NoResolvableLine ==
  \A i \in DOMAIN page.lines :
     ~page.lines[i].layout \/ page.lines[i].vertices = <<>>

\* the grid as assembled, before the header row is taken out
assembledCells == [r \in DOMAIN tableRows |-> tableRows[r].cells]

HeaderLike(cell) == Len(cell) > 0 /\ Len(cell) < 30 /\ HasAlpha(cell)

Reorderings(s) ==
  {[i \in DOMAIN s |-> s[f[i]]] :
     f \in {g \in [DOMAIN s -> DOMAIN s] :
              \A i, j \in DOMAIN s : g[i] = g[j] => i = j}}

Swaps(s) ==
  {[s EXCEPT ![i] = s[i + 1], ![i + 1] = s[i]] : i \in 1..(Len(s) - 1)}

\* every permutation of a short list; for a longer one the swaps of two
\* neighbours and the reversal
Rearrangements(s) ==
  IF Len(s) <= MaxLines THEN Reorderings(s) ELSE Swaps(s) \cup {Reverse(s)}

SameForEveryOrder ==
  \A q \in Rearrangements(page.lines) :
     spatialTextToTable([page EXCEPT !.lines = q]) = result

\* fragments that share centerX and centerY also share their text
NoConflictingTies ==
  \A i, j \in DOMAIN textBlocks :
     (textBlocks[i].x = textBlocks[j].x /\ textBlocks[i].y = textBlocks[j].y)
       => textBlocks[i].text = textBlocks[j].text

InSameRow(a, b) ==
  \E r \in DOMAIN rows : a \in Range(rows[r]) /\ b \in Range(rows[r])

\* a and b are neighbours in centerY order: nothing lies strictly between
AdjacentInY(a, b) ==
  /\ a.y < b.y
  /\ ~\E c \in Range(textBlocks) : a.y < c.y /\ c.y < b.y

(***************************************************************************)
(* C1  Called with no lines, or with no line that has a resolvable         *)
(*     bounding box, spatialTextToTable returns null (and completes).      *)
(***************************************************************************)
C1_EmptyInputReturnsNull ==
  (Done /\ (~page.hasLines \/ NoResolvableLine)) => result = NullTable

C1_Witness ==
  /\ Done
  /\ page.hasLines /\ Len(page.lines) >= 2
  /\ NoResolvableLine
  /\ result = NullTable

(***************************************************************************)
(* C2  Every returned table is rectangular: each row of rows has exactly   *)
(*     columnCount entries, a cell no fragment was placed in is the empty  *)
(*     string, and headers, when present, has columnCount entries too.     *)
(***************************************************************************)
C2_Rectangular ==
  Returned =>
    /\ \A r \in DOMAIN result.rows : Len(result.rows[r]) = result.columnCount
    /\ result.hasHeaders => Len(result.headers) = result.columnCount
    /\ \A r \in DOMAIN tableRows : \A c \in 1..result.columnCount :
         (\A b \in Range(rows[r]) : columnIndex(b, columnStarts) # c)
            => tableRows[r].cells[c] = <<>>

C2_Witness ==
  /\ Returned
  /\ result.columnCount = 2
  /\ result.rowCount >= 1
  /\ \E r \in DOMAIN result.rows : result.rows[r][2] = <<>> /\ result.rows[r][1] # <<>>

(***************************************************************************)
(* C3  (as claimed) The result is the same for every permutation of the    *)
(*     input list, also when two fragments with different text share       *)
(*     centerX and centerY.                                                *)
(***************************************************************************)
C3_PermutationInvariant == Done => SameForEveryOrder

(***************************************************************************)
(* C3  (amended) When fragments that share both centerX and centerY have   *)
(*     the same text, the result is the same for every permutation of the  *)
(*     input list.                                                         *)
(***************************************************************************)
C3_PermutationInvariantWithoutTies ==
  (Done /\ NoConflictingTies) => SameForEveryOrder

C3_Witness ==
  /\ Returned
  /\ NoConflictingTies
  /\ Len(textBlocks) = 3
  /\ \E i, j \in DOMAIN textBlocks : i < j /\ textBlocks[i].y > textBlocks[j].y
  /\ \E i, j \in DOMAIN textBlocks :
        /\ i < j
        /\ textBlocks[i].y = textBlocks[j].y
        /\ textBlocks[i].x > textBlocks[j].x
        /\ textBlocks[i].text # textBlocks[j].text

(***************************************************************************)
(* C4  A single fragment "X" at (0.5, 0.5) with confidence 0.9 yields a    *)
(*     table with rowCount 1, columnCount 1, rows [["X"]], headers null.   *)
(***************************************************************************)
C4_SingleFragmentTable ==
  (Done /\ page.lines = SingleFragment) =>
    /\ ~result.isNull
    /\ result.rowCount = 1
    /\ result.columnCount = 1
    /\ result.rows = <<<<<<"X">>>>>>
    /\ ~result.hasHeaders

(***************************************************************************)
(* C5  A non-empty fragment list always yields a table; null is returned   *)
(*     only for zero fragments.                                            *)
(***************************************************************************)
C5_NonEmptyInputYieldsTable ==
  Done => (result.isNull <=> Len(extractTextBlocks(page.lines)) = 0)

(***************************************************************************)
(* C6  When the fragments form exactly one row, that row is not promoted   *)
(*     to headers: headers is null and the row stays in rows.              *)
(***************************************************************************)
C6_SingleRowNeverHeader ==
  (Done /\ Len(rows) = 1) =>
    /\ ~result.isNull
    /\ ~result.hasHeaders
    /\ result.rows = assembledCells

(***************************************************************************)
(* C7  When every cell of the first assembled row is non-empty, shorter    *)
(*     than 30 characters and has a letter, and another row follows, the   *)
(*     first row is removed from rows and returned as headers; Name /      *)
(*     Price / Qty over Widget / 9.99 / 3 gives exactly that.              *)
(***************************************************************************)
C7_HeaderRowPromoted ==
  /\ (Done /\ Len(tableRows) >= 2
           /\ \A c \in DOMAIN tableRows[1].cells : HeaderLike(tableRows[1].cells[c]))
       => /\ ~result.isNull
          /\ result.hasHeaders
          /\ result.headers = assembledCells[1]
          /\ result.rows = Tail(assembledCells)
  /\ (Done /\ page.lines \in {HeaderScenario, Reverse(HeaderScenario)})
       => /\ ~result.isNull
          /\ result.hasHeaders
          /\ result.headers = <<<<"N","a","m","e">>, <<"P","r","i","c","e">>, <<"Q","t","y">>>>
          /\ result.rows = <<<<<<"W","i","d","g","e","t">>, <<"9",".","9","9">>, <<"3">>>>>>

C7_Witness ==
  /\ Returned
  /\ page.lines = Reverse(HeaderScenario)
  /\ result.hasHeaders
  /\ result.rowCount = 1

(***************************************************************************)
(* C8  When a cell of the first assembled row is empty, has 30 or more     *)
(*     characters or has no letter, headers is null and every assembled    *)
(*     row, the first included, stays in rows.                             *)
(***************************************************************************)
C8_NonHeaderRowKept ==
  (Done /\ Len(tableRows) >= 1
        /\ \E c \in DOMAIN tableRows[1].cells : ~HeaderLike(tableRows[1].cells[c]))
    => /\ ~result.isNull
       /\ ~result.hasHeaders
       /\ result.rows = assembledCells

(***************************************************************************)
(* C9  (as claimed) The 3x3 grid A1..C3 at 0.1 / 0.5 / 0.9 yields rowCount *)
(*     3, columnCount 3 and rows[0] = the top row, left to right.          *)
(***************************************************************************)
C9_GridThreeRows ==
  (Done /\ page.lines \in {Grid3x3, Reverse(Grid3x3)}) =>
    /\ ~result.isNull
    /\ result.rowCount = 3
    /\ result.columnCount = 3
    /\ result.rows[1] = <<GridText(1, 1), GridText(1, 2), GridText(1, 3)>>

(***************************************************************************)
(* C9  (amended) The 3x3 grid yields columnCount 3, the top row, left to   *)
(*     right, as headers, rowCount 2, and rows = the middle and the bottom *)
(*     row, each left to right.                                            *)
(***************************************************************************)
C9_GridHeaderAndTwoRows ==
  (Done /\ page.lines \in {Grid3x3, Reverse(Grid3x3)}) =>
    /\ ~result.isNull
    /\ result.columnCount = 3
    /\ result.hasHeaders
    /\ result.headers = <<GridText(1, 1), GridText(1, 2), GridText(1, 3)>>
    /\ result.rowCount = 2
    /\ result.rows = <<<<GridText(2, 1), GridText(2, 2), GridText(2, 3)>>,
                       <<GridText(3, 1), GridText(3, 2), GridText(3, 3)>>>>

C9_Witness ==
  /\ Returned
  /\ page.lines = Reverse(Grid3x3)
  /\ Len(textBlocks) = 9
  /\ result.rowCount = 2

(***************************************************************************)
(* C10 Two fragments that are neighbours in centerY order are in the same  *)
(*     row when their centerY differ by less than 0.02 and in different    *)
(*     rows when they differ by more than 0.02.                            *)
(***************************************************************************)
C10_RowToleranceBoundary ==
  Done =>
    \A a, b \in Range(textBlocks) :
       AdjacentInY(a, b) =>
         /\ (b.y - a.y < 20) => InSameRow(a, b)
         /\ (b.y - a.y > 20) => ~InSameRow(a, b)

C10_Witness ==
  /\ Done
  /\ \E a, b, c \in Range(textBlocks) :
        /\ AdjacentInY(a, b) /\ b.y - a.y = 19 /\ InSameRow(a, b)
        /\ AdjacentInY(b, c) /\ c.y - b.y = 21 /\ ~InSameRow(b, c)

(***************************************************************************)
(* C11 Scanning the ascending centerX list, a coordinate becomes a new     *)
(*     column boundary exactly when it differs from the last accepted      *)
(*     boundary by more than 0.03: the first boundary is the smallest      *)
(*     centerX, each next one the smallest centerX more than 0.03 above    *)
(*     the boundary before it, and none is left above the last.  Two       *)
(*     fragments 0.029 apart give one column, 0.031 apart two.             *)
(***************************************************************************)
AllCenterX == {textBlocks[i].x : i \in DOMAIN textBlocks}

Least(S) == CHOOSE m \in S : \A n \in S : m <= n

C11_ColumnToleranceBoundary ==
  (Done /\ Len(textBlocks) > 0) =>
    /\ Len(columnStarts) >= 1
    /\ columnStarts[1] = Least(AllCenterX)
    /\ \A k \in 2..Len(columnStarts) :
         /\ \E x \in AllCenterX : x > columnStarts[k - 1] + 30
         /\ columnStarts[k] = Least({x \in AllCenterX : x > columnStarts[k - 1] + 30})
    /\ ~\E x \in AllCenterX : x > columnStarts[Len(columnStarts)] + 30
    /\ Len(textBlocks) = 2 =>
         /\ Abs(textBlocks[1].x - textBlocks[2].x) = 29 => Len(columnStarts) = 1
         /\ Abs(textBlocks[1].x - textBlocks[2].x) = 31 => Len(columnStarts) = 2

C11_Witness ==
  /\ Done
  /\ AllCenterX = {100, 129, 131}
  /\ columnStarts = <<100, 131>>

(***************************************************************************)
(* C12 (as claimed) When several fragments of one row map to the same      *)
(*     cell, the cell's text is their texts joined by exactly one space,   *)
(*     in the row's left-to-right order, and the cell's confidence is the  *)
(*     largest of their confidences.                                       *)
(***************************************************************************)
\* the fragments of row r that grid assembly puts in column c, left to right
CellBlocks(r, c) ==
  LET InColumn(b) == columnIndex(b, columnStarts) = c
      placed == SelectSeq(rows[r], InColumn)
  IN  StableSort(placed, xsOf(placed))

TextsOf(blocks) == [i \in DOMAIN blocks |-> blocks[i].text]

ConfidencesOf(blocks) == [i \in DOMAIN blocks |-> blocks[i].confidence]

\* texts.join(" ")
RECURSIVE Join(_)
Join(texts) ==
  IF texts = <<>> THEN <<>>
  ELSE IF Len(texts) = 1 THEN texts[1]
  ELSE texts[1] \o <<" ">> \o Join(Tail(texts))

NonEmpty(t) == t # <<>>

Largest(ns) == CHOOSE m \in Range(ns) : \A n \in Range(ns) : m >= n

C12_MergedCellJoined ==
  Done =>
    \A r \in DOMAIN tableRows : \A c \in DOMAIN columnStarts :
       Len(CellBlocks(r, c)) >= 2 =>
         /\ tableRows[r].cells[c] = Join(TextsOf(CellBlocks(r, c)))
         /\ tableRows[r].confidences[c] = Largest(ConfidencesOf(CellBlocks(r, c)))

(***************************************************************************)
(* C12 (amended) When several fragments of one row map to the same cell,   *)
(*     the cell's text is their non-empty texts joined by exactly one      *)
(*     space, in the row's left-to-right order (a fragment with empty text *)
(*     adds nothing, no space either), and the cell's confidence is the    *)
(*     largest of their confidences.                                       *)
(***************************************************************************)
C12_MergedCellJoinedNonEmpty ==
  Done =>
    \A r \in DOMAIN tableRows : \A c \in DOMAIN columnStarts :
       Len(CellBlocks(r, c)) >= 2 =>
         /\ tableRows[r].cells[c] =
              Join(SelectSeq(TextsOf(CellBlocks(r, c)), NonEmpty))
         /\ tableRows[r].confidences[c] = Largest(ConfidencesOf(CellBlocks(r, c)))

C12_Witness ==
  /\ Returned
  /\ Len(tableRows) = 2
  /\ Len(CellBlocks(2, 1)) = 2
  /\ tableRows[2].cells[1] = <<"A", "b", " ", "C", "d">>
  /\ page.lines[2].text = <<"C", "d">>
  /\ tableRows[2].confidences[1] = 850
  /\ CellBlocks(2, 1)[1].confidence = 500

(***************************************************************************)
(* C13 (as claimed) averageConfidence of a returned table is the mean of   *)
(*     the non-zero cell confidences, 0 when there is none: a cell that    *)
(*     received no fragment does not lower the mean.                       *)
(***************************************************************************)
IsFilled(n) == n # 0

FilledConfidences == SelectSeq(Flat(result.cellConfidences), IsFilled)

C13_AverageOfFilledCells ==
  Returned =>
    result.averageConfidence =
      IF FilledConfidences = <<>> THEN 0
      ELSE SumSeq(FilledConfidences) \div Len(FilledConfidences)

(***************************************************************************)
(* C13 (amended) averageConfidence of a returned table is the sum of the   *)
(*     confidences of all cells of the returned rows divided by the number *)
(*     of those cells, rowCount * columnCount: a cell that received no     *)
(*     fragment counts with confidence 0 and lowers the mean.              *)
(***************************************************************************)
C13_AverageOfAllCells ==
  Returned =>
    /\ Len(Flat(result.cellConfidences)) = result.rowCount * result.columnCount
    /\ result.averageConfidence =
         SumSeq(Flat(result.cellConfidences))
           \div (result.rowCount * result.columnCount)

C13_Witness ==
  /\ Returned
  /\ result.cellConfidences = <<<<900, 0>>>>
  /\ result.averageConfidence = 450

(***************************************************************************)
(* C14 (as claimed) A line without a confidence value is not rejected: its *)
(*     fragment is built and carries confidence 0.                         *)
(***************************************************************************)
Resolvable(line) == ~lineSkipped(line)

ResolvableLines == SelectSeq(page.lines, Resolvable)

C14_AbsentConfidenceIsZero ==
  Done =>
    /\ Len(textBlocks) = Len(ResolvableLines)
    /\ \A k \in DOMAIN textBlocks :
         ResolvableLines[k].confidence = NoConfidence =>
           textBlocks[k].confidence = 0

(***************************************************************************)
(* C14 (amended) A line without a confidence value is not rejected: its    *)
(*     fragment is built and carries the default confidence 0.85; a line   *)
(*     with a confidence value keeps it.                                   *)
(***************************************************************************)
C14_AbsentConfidenceIsDefault ==
  Done =>
    /\ Len(textBlocks) = Len(ResolvableLines)
    /\ \A k \in DOMAIN textBlocks :
         textBlocks[k].confidence =
           IF ResolvableLines[k].confidence = NoConfidence
           THEN 850 ELSE ResolvableLines[k].confidence

C14_Witness ==
  /\ Returned
  /\ \E k \in DOMAIN textBlocks :
       /\ ResolvableLines[k].confidence = NoConfidence
       /\ textBlocks[k].confidence = 850
       /\ \E r \in DOMAIN result.cellConfidences :
            850 \in Range(result.cellConfidences[r])

(***************************************************************************)
(* C15 No state is kept between calls: in any sequence of calls on the     *)
(*     same service object, with the same or different pages, a call       *)
(*     returns what the first call of the sequence returned for the same   *)
(*     page (that call ran alone, on a fresh object), whatever calls came  *)
(*     in between; and the fragments a call works on are those of its own  *)
(*     page only.                                                          *)
(***************************************************************************)
\* the calls of the sequence so far, the finished current one included
CallsSoFar == Append(earlier, [page |-> page, result |-> result])

Chained(a, b) ==
  /\ a.y < b.y
  /\ \A c, d \in Range(textBlocks) :
       (a.y <= c.y /\ d.y <= b.y /\ AdjacentInY(c, d)) => d.y - c.y < 20

C16_ChainFormsOneRow ==
  Done =>
    /\ \A a, b \in Range(textBlocks) : Chained(a, b) => InSameRow(a, b)
    /\ page.lines \in {ChainScenario, Reverse(ChainScenario)} =>
         /\ Len(rows) = 2
         /\ Len(rows[1]) = 4

C16_Witness ==
  /\ Done
  /\ page.lines = ChainScenario
  /\ \E a, b \in Range(rows[1]) : Chained(a, b) /\ b.y - a.y > 40

(***************************************************************************)
(* C17 Every fragment with centerX in [0, 1] is matched to a column during *)
(*     grid assembly, a fragment at centerX = 1.0 included: none is        *)
(*     dropped, and a fragment alone in its cell is that cell's text.      *)
(***************************************************************************)
C17_NoFragmentDropped ==
  Done =>
    \A r \in DOMAIN rows : \A b \in Range(rows[r]) :
       (0 <= b.x /\ b.x <= 1000) =>
          /\ columnIndex(b, columnStarts) # 0
          /\ Len(CellBlocks(r, columnIndex(b, columnStarts))) = 1 =>
               tableRows[r].cells[columnIndex(b, columnStarts)] = b.text

(***************************************************************************)
(* C18 A fragment that grid assembly matches is placed in the column of    *)
(*     the greatest boundary that is at most its centerX: neither the 0.02 *)
(*     slack nor the first-match search puts it in another column (a       *)
(*     fragment less than 0.02 left of the next boundary stays in the      *)
(*     column to its left), and the other cells of a row get none of it.   *)
(***************************************************************************)
\* the index of the greatest boundary that is at most x, 0 when there is none
GreatestBoundaryAtMost(x) ==
  IF \E k \in DOMAIN columnStarts : columnStarts[k] <= x
  THEN CHOOSE k \in DOMAIN columnStarts :
         /\ columnStarts[k] <= x
         /\ \A j \in DOMAIN columnStarts :
              columnStarts[j] <= x => columnStarts[j] <= columnStarts[k]
  ELSE 0

C18_PlacedAtGreatestBoundary ==
  Done =>
    \A r \in DOMAIN rows : \A b \in Range(rows[r]) :
       columnIndex(b, columnStarts) # 0 =>
         /\ columnIndex(b, columnStarts) = GreatestBoundaryAtMost(b.x)
         /\ Len(rows[r]) = 1 =>
              \A c \in DOMAIN columnStarts :
                 tableRows[r].cells[c] =
                   IF c = GreatestBoundaryAtMost(b.x) THEN b.text ELSE <<>>

C18_Witness ==
  /\ Done
  /\ columnStarts = <<100, 131>>
  /\ \E r \in DOMAIN rows :
       /\ Len(rows[r]) = 1
       /\ rows[r][1].x = 129
       /\ rows[r][1].text # <<>>
       /\ tableRows[r].cells = <<rows[r][1].text, <<>>>>

(***************************************************************************)
(* C19 For a non-empty fragment list column detection finds at least one   *)
(*     boundary, and columnCount of the returned table is the number of    *)
(*     boundaries found: a table with zero columns is never returned.      *)
(***************************************************************************)
C19_ColumnCountIsBoundaryCount ==
  /\ (Done /\ Len(textBlocks) > 0) => Len(columnStarts) >= 1
  /\ Returned =>
       /\ Len(textBlocks) > 0
       /\ result.columnCount = Len(columnStarts)
       /\ result.columnCount >= 1

C19_Witness ==
  /\ Returned
  /\ ~result.hasHeaders
  /\ Len(textBlocks) = 3
  /\ Len(columnStarts) = 2
  /\ result.columnCount = 2

(***************************************************************************)
(* C20 When all N fragments have exactly the same centerY, row grouping    *)
(*     makes exactly one row holding all of them, and when their centerX   *)
(*     are pairwise more than 0.03 apart column detection finds N columns, *)
(*     one fragment per cell, left to right.                               *)
(***************************************************************************)
AllOnOneY == \A a, b \in Range(textBlocks) : a.y = b.y

PairwiseApartInX ==
  \A i, j \in DOMAIN textBlocks :
     i # j => Abs(textBlocks[i].x - textBlocks[j].x) > 30

C20_OneRowManyColumns ==
  (Done /\ Len(textBlocks) > 0 /\ AllOnOneY) =>
    /\ Len(rows) = 1
    /\ Len(rows[1]) = Len(textBlocks)
    /\ PairwiseApartInX =>
         /\ Len(columnStarts) = Len(textBlocks)
         /\ columnStarts = xsOf(rows[1])
         /\ tableRows[1].cells = TextsOf(rows[1])

C20_Witness ==
  /\ Done
  /\ page.lines = OneRowScenario
  /\ AllOnOneY /\ PairwiseApartInX
  /\ Len(rows) = 1
  /\ columnStarts = <<100, 500, 900>>
  /\ tableRows[1].cells = <<<<"A", "b">>, <<"C", "d">>, Long(30)>>

(***************************************************************************)
(* C21 When all N fragments have exactly the same centerX, column          *)
(*     detection finds exactly one column, that centerX, and when their    *)
(*     centerY are pairwise at least 0.02 apart row grouping makes N rows, *)
(*     one fragment each, from top to bottom.                              *)
(***************************************************************************)
AllOnOneX == \A a, b \in Range(textBlocks) : a.x = b.x

PairwiseApartInY ==
  \A i, j \in DOMAIN textBlocks :
     i # j => Abs(textBlocks[i].y - textBlocks[j].y) >= 20

C21_OneColumnManyRows ==
  (Done /\ Len(textBlocks) > 0 /\ AllOnOneX) =>
    /\ columnStarts = <<textBlocks[1].x>>
    /\ PairwiseApartInY =>
         /\ Len(rows) = Len(textBlocks)
         /\ \A r \in DOMAIN rows : Len(rows[r]) = 1
         /\ \A r \in 1..(Len(rows) - 1) : rows[r][1].y < rows[r + 1][1].y
         /\ \A r \in DOMAIN tableRows : tableRows[r].cells = <<rows[r][1].text>>

C21_Witness ==
  /\ Done
  /\ page.lines = OneColumnScenario
  /\ AllOnOneX /\ PairwiseApartInY
  /\ columnStarts = <<500>>
  /\ Len(rows) = 3
  /\ rows[2][1].y - rows[1][1].y = 20
  /\ tableRows[2].cells = <<<<"C", "d">>>>

(***************************************************************************)
(* extractTextAsTable, STRATEGY 2: line-based delimiter parsing            *)
(***************************************************************************)
\* confidence the fallback gives every cell and the table (0.85)
estimatedConfidence == 850

\* String.prototype.includes for one character
Includes(t, ch) == \E i \in DOMAIN t : t[i] = ch

\* String.prototype.split with a one-character separator: "a," gives
\* ["a", ""], the empty string gives [""]
RECURSIVE splitLoop(_, _, _, _)
splitLoop(t, sep, cell, acc) ==
  IF t = <<>> THEN Append(acc, cell)
  ELSE IF Head(t) = sep
       THEN splitLoop(Tail(t), sep, <<>>, Append(acc, cell))
       ELSE splitLoop(Tail(t), sep, Append(cell, Head(t)), acc)

Split(t, sep) == splitLoop(t, sep, <<>>, <<>>)

\* length of the run of whitespace at the start of t
RECURSIVE spaceRun(_)
spaceRun(t) ==
  IF t = <<>> \/ Head(t) \notin Whitespace THEN 0 ELSE 1 + spaceRun(Tail(t))

\* /\s{2,}/.test(line)
HasSpaceRun(t) == \E i \in 1..(Len(t) - 1) : t[i] \in Whitespace /\ t[i + 1] \in Whitespace

\* line.split(/\s{2,}/): every maximal run of two or more whitespace
\* characters separates, a single whitespace character stays in the cell
RECURSIVE splitRunsLoop(_, _, _)
splitRunsLoop(t, cell, acc) ==
  IF t = <<>> THEN Append(acc, cell)
  ELSE IF spaceRun(t) >= 2
       THEN splitRunsLoop(SubSeq(t, spaceRun(t) + 1, Len(t)), <<>>, Append(acc, cell))
       ELSE splitRunsLoop(Tail(t), Append(cell, Head(t)), acc)

SplitRuns(t) == splitRunsLoop(t, <<>>, <<>>)

trimAll(cells) == [i \in DOMAIN cells |-> Trim(cells[i])]

SomeContent(cells) == \E i \in DOMAIN cells : Len(cells[i]) > 0

\* the body of the loop of parseLinesToRows before the content test: the
\* cells one line is split into, by the first delimiter that applies
cellsOfLine(line) ==
  IF Includes(line, "\t") THEN trimAll(Split(line, "\t"))
  ELSE IF Includes(line, "|")
       THEN SelectSeq(trimAll(Split(line, "|")), LAMBDA cell : Len(cell) > 0)
  ELSE IF Includes(line, ",") /\ Len(Split(line, ",")) > 2
       THEN trimAll(Split(line, ","))
  ELSE IF HasSpaceRun(line) THEN trimAll(SplitRuns(line))
  ELSE <<Trim(line)>>

\* variant: a line whose cells are all empty is kept as a row
parseLinesToRowsKeepAll(lines) == [i \in DOMAIN lines |-> cellsOfLine(lines[i])]

\* parseLinesToRows: only rows with content are added
RECURSIVE parseLinesToRows(_)
parseLinesToRows(lines) ==
  IF lines = <<>> THEN <<>>
  ELSE IF SomeContent(cellsOfLine(Head(lines)))
       THEN <<cellsOfLine(Head(lines))>> \o parseLinesToRows(Tail(lines))
       ELSE parseLinesToRows(Tail(lines))

\* text.split('\n').filter(line => line.trim().length > 0)
nonBlankLines(text) == SelectSeq(Split(text, "\n"), LAMBDA line : Len(Trim(line)) > 0)

RECURSIVE MaxOfSeq(_)
MaxOfSeq(ns) == IF ns = <<>> THEN 0 ELSE Max(Head(ns), MaxOfSeq(Tail(ns)))

padRow(row, width, filler) ==
  [c \in 1..Max(width, Len(row)) |-> IF c <= Len(row) THEN row[c] ELSE filler]

\* the header test of the fallback: short, and contains a letter
isHeaderText(cells) ==
  \A c \in DOMAIN cells :
     Len(cells[c]) > 0 /\ Len(cells[c]) < headerMaxLen /\ HasAlpha(cells[c])

\* lines 375-433 of extractTextAsTable
lineBasedTable(text) ==
  LET lines == nonBlankLines(text)
      parsed == parseLinesToRows(lines)
      maxColumns == MaxOfSeq([r \in DOMAIN parsed |-> Len(parsed[r])])
      normalizedRows == [r \in DOMAIN parsed |->
                           SubSeq(padRow(parsed[r], maxColumns, <<>>), 1, maxColumns)]
      promote == Len(normalizedRows) > 0 /\ isHeaderText(normalizedRows[1])
      rest == IF promote THEN Tail(normalizedRows) ELSE normalizedRows
  IN  IF Len(lines) = 0 THEN NullTable
      ELSE IF Len(parsed) = 0 THEN NullTable
      ELSE IF maxColumns < 2 THEN NullTable
      ELSE [isNull            |-> FALSE,
            hasHeaders        |-> promote,
            headers           |-> IF promote THEN normalizedRows[1] ELSE <<>>,
            rows              |-> rest,
            cellConfidences   |-> [r \in DOMAIN rest |->
                                     [c \in DOMAIN rest[r] |-> estimatedConfidence]],
            rowCount          |-> Len(rest),
            columnCount       |-> maxColumns,
            averageConfidence |-> estimatedConfidence,
            extracted         |-> "smart-text-parsing"]

(***************************************************************************)
(* extractTable: the structured-table path                                 *)
(***************************************************************************)
\* cell.layout.confidence absent or 0: both give 0 (x || 0)
absentCellConfidence == 0

\* fullText.substring(start, end), indices counted from 0
Substring(t, start, end) == SubSeq(t, start + 1, IF end > Len(t) THEN Len(t) ELSE end)

\* parseInt(segment.endIndex) || fullText.length: an absent or zero end
\* index means the end of the text
segmentText(segment, fullText) ==
  Substring(fullText, segment.startIndex,
            IF segment.endIndex = 0 THEN Len(fullText) ELSE segment.endIndex)

RECURSIVE segmentsText(_, _)
segmentsText(segments, fullText) ==
  IF segments = <<>> THEN <<>>
  ELSE segmentText(Head(segments), fullText) \o segmentsText(Tail(segments), fullText)

\* getCellText: '' without a text anchor, else the trimmed concatenation
getCellText(cell, fullText) ==
  IF ~cell.anchored THEN <<>> ELSE Trim(segmentsText(cell.segments, fullText))

\* .replace(/\s+/g, ' '): every maximal run of whitespace becomes one space
RECURSIVE collapseSpaces(_)
collapseSpaces(t) ==
  IF t = <<>> THEN <<>>
  ELSE IF spaceRun(t) >= 1
       THEN <<" ">> \o collapseSpaces(SubSeq(t, spaceRun(t) + 1, Len(t)))
       ELSE <<Head(t)>> \o collapseSpaces(Tail(t))

cleanedText(cell, fullText) == Trim(collapseSpaces(getCellText(cell, fullText)))

cellsOfRow(row) == IF row.hasCells THEN row.cells ELSE <<>>

rowCells(row, fullText) ==
  [c \in DOMAIN cellsOfRow(row) |-> cleanedText(cellsOfRow(row)[c], fullText)]

rowConfidences(row) ==
  [c \in DOMAIN cellsOfRow(row) |-> cellsOfRow(row)[c].confidence]

\* table.bodyRows.forEach: completely empty rows are skipped
bodyRowsKept(table, fullText) ==
  SelectSeq(table.bodyRows, LAMBDA row : SomeContent(rowCells(row, fullText)))

\* table.headerRows.forEach: the cells of all header rows, one after another
RECURSIVE explicitHeaders(_, _)
explicitHeaders(headerRows, fullText) ==
  IF headerRows = <<>> THEN <<>>
  ELSE rowCells(Head(headerRows), fullText) \o explicitHeaders(Tail(headerRows), fullText)

Digits == {"0", "1", "2", "3", "4", "5", "6", "7", "8", "9"}

\* /^\d{4,}$/.test(cell)
IsLongNumber(t) == Len(t) >= 4 /\ \A i \in DOMAIN t : t[i] \in Digits

looksLikeHeaders(firstRow) ==
  \A c \in DOMAIN firstRow :
     /\ Len(firstRow[c]) > 0
     /\ Len(firstRow[c]) < headerMaxLen
     /\ HasAlpha(firstRow[c])
     /\ ~IsLongNumber(firstRow[c])

DigitChars == <<"1", "2", "3", "4", "5", "6", "7", "8", "9">>

\* `Column ${k}` for the column numbers of the model (k below 10)
ColumnName(k) == <<"C", "o", "l", "u", "m", "n", " ", DigitChars[k]>>

padHeaders(headers, width) ==
  [c \in 1..Max(width, Len(headers)) |->
     IF c <= Len(headers) THEN headers[c] ELSE ColumnName(c)]

\* calculateTableConfidence
calculateTableConfidence(cellConfidences) ==
  IF Flat(cellConfidences) = <<>> THEN 0
  ELSE SumSeq(Flat(cellConfidences)) \div Len(Flat(cellConfidences))

\* variant: the confidences of a promoted first row are not removed
extractTableKeepingConfidences(table, fullText) ==
  LET kept == bodyRowsKept(table, fullText)
      allRows == [r \in DOMAIN kept |-> rowCells(kept[r], fullText)]
      allConfidences == [r \in DOMAIN kept |-> rowConfidences(kept[r])]
      given == explicitHeaders(table.headerRows, fullText)
      promote == Len(given) = 0 /\ Len(allRows) > 0 /\ looksLikeHeaders(allRows[1])
      headers == IF promote THEN allRows[1] ELSE given
      dataRows == IF promote THEN Tail(allRows) ELSE allRows
      maxColumns == Max(Len(headers),
                        MaxOfSeq([r \in DOMAIN dataRows |-> Len(dataRows[r])]))
      normalizedRows == [r \in DOMAIN dataRows |-> padRow(dataRows[r], maxColumns, <<>>)]
      paddedConfidences == [r \in DOMAIN allConfidences |->
                              IF r \in DOMAIN dataRows
                              THEN padRow(allConfidences[r], maxColumns, 0)
                              ELSE allConfidences[r]]
      paddedHeaders == padHeaders(headers, maxColumns)
  IN  [hasHeaders        |-> Len(paddedHeaders) > 0,
       headers           |-> paddedHeaders,
       rows              |-> normalizedRows,
       cellConfidences   |-> paddedConfidences,
       rowCount          |-> Len(normalizedRows),
       columnCount       |-> maxColumns,
       averageConfidence |-> calculateTableConfidence(paddedConfidences)]

extractTable(table, fullText) ==
  LET kept == bodyRowsKept(table, fullText)
      allRows == [r \in DOMAIN kept |-> rowCells(kept[r], fullText)]
      allConfidences == [r \in DOMAIN kept |-> rowConfidences(kept[r])]
      given == explicitHeaders(table.headerRows, fullText)
      promote == Len(given) = 0 /\ Len(allRows) > 0 /\ looksLikeHeaders(allRows[1])
      headers == IF promote THEN allRows[1] ELSE given
      dataRows == IF promote THEN Tail(allRows) ELSE allRows
      confidences == IF promote THEN Tail(allConfidences) ELSE allConfidences
      maxColumns == Max(Len(headers),
                        MaxOfSeq([r \in DOMAIN dataRows |-> Len(dataRows[r])]))
      normalizedRows == [r \in DOMAIN dataRows |-> padRow(dataRows[r], maxColumns, <<>>)]
      paddedConfidences == [r \in DOMAIN confidences |->
                              padRow(confidences[r], maxColumns, 0)]
      paddedHeaders == padHeaders(headers, maxColumns)
  IN  [hasHeaders        |-> Len(paddedHeaders) > 0,
       headers           |-> paddedHeaders,
       rows              |-> normalizedRows,
       cellConfidences   |-> paddedConfidences,
       rowCount          |-> Len(normalizedRows),
       columnCount       |-> maxColumns,
       averageConfidence |-> calculateTableConfidence(paddedConfidences)]

(***************************************************************************)
(* extractTextAsTable and extractStructuredData                            *)
(***************************************************************************)
FirstPageHasLines(doc) ==
  doc.hasPages /\ Len(doc.pages) > 0 /\ doc.pages[1].hasLines

\* variant: the line-based parsing is tried first, spatial clustering after
extractTextAsTableLinesFirst(doc) ==
  LET parsed == lineBasedTable(doc.text)
  IN  IF ~parsed.isNull THEN [table |-> parsed, ran |-> <<"lines">>]
      ELSE IF FirstPageHasLines(doc)
           THEN [table |-> spatialTextToTable(doc.pages[1]), ran |-> <<"lines", "spatial">>]
           ELSE [table |-> NullTable, ran |-> <<"lines">>]

\* the value returned, and the strategies run in their order
extractTextAsTable(doc) ==
  IF FirstPageHasLines(doc)
  THEN LET spatialTable == spatialTextToTable(doc.pages[1])
       IN  IF ~spatialTable.isNull
           THEN [table |-> spatialTable, ran |-> <<"spatial">>]
           ELSE [table |-> lineBasedTable(doc.text), ran |-> <<"spatial", "lines">>]
  ELSE [table |-> lineBasedTable(doc.text), ran |-> <<"lines">>]

\* document.pages.forEach / page.tables.forEach: one entry per table
RECURSIVE extractPageTables(_, _, _, _)
extractPageTables(pageTables, fullText, pageIndex, tableIndex) ==
  IF pageIndex > Len(pageTables) THEN <<>>
  ELSE IF tableIndex > Len(pageTables[pageIndex])
       THEN extractPageTables(pageTables, fullText, pageIndex + 1, 1)
       ELSE <<[pageIndex  |-> pageIndex - 1,
               tableIndex |-> tableIndex - 1,
               table      |-> extractTable(pageTables[pageIndex][tableIndex], fullText)]>>
            \o extractPageTables(pageTables, fullText, pageIndex, tableIndex + 1)

structuredTables(doc) ==
  IF doc.hasPages THEN extractPageTables(doc.pageTables, doc.text, 1, 1) ELSE <<>>

(***************************************************************************)
(* Documents                                                               *)
(***************************************************************************)
TextLines ==
  { <<"a", "\t", "b">>, <<"a", "\t">>, <<"|", "a", "|", "b", "|">>, <<"|">>,
    <<"a", ",", "b", ",", "c">>, <<"a", ",", "b">>, <<",", ",">>,
    <<"a", " ", " ", "b">>, <<" ", " ", "a">>, <<"a", " ", "b">>,
    <<"1", "\t", "2">>, <<" ">>, <<>> }

RECURSIVE JoinLines(_)
JoinLines(lines) ==
  IF lines = <<>> THEN <<>>
  ELSE IF Len(lines) = 1 THEN lines[1]
  ELSE lines[1] \o <<"\n">> \o JoinLines(Tail(lines))

\* the texts of n lines
Texts(n) == {JoinLines(ls) : ls \in [1..n -> TextLines]}

\* document.pages: absent, empty, or one page
FirstPages ==
  {NoLinesPage, [hasLines |-> TRUE, lines |-> <<>>],
   [hasLines |-> TRUE, lines |-> SingleFragment],
   [hasLines |-> TRUE, lines |-> HeaderScenario],
   [hasLines |-> TRUE, lines |-> NonHeaderScenario]}

TextDocuments(n) ==
  {[text |-> t, hasPages |-> FALSE, pages |-> <<>>, pageTables |-> <<>>] : t \in Texts(n)}
  \cup {[text |-> t, hasPages |-> TRUE, pages |-> <<>>, pageTables |-> <<>>] : t \in Texts(n)}
  \cup {[text |-> t, hasPages |-> TRUE, pages |-> <<pg>>, pageTables |-> <<<<>>>>] :
          t \in Texts(n), pg \in FirstPages}

\* "Name Qty\nPen  12\n7001 "
TableText ==
  <<"N", "a", "m", "e", " ", "Q", "t", "y", "\n",
    "P", "e", "n", " ", " ", "1", "2", "\n", "7", "0", "0", "1", " ">>

Cell(startIndex, endIndex, conf) ==
  [anchored |-> TRUE,
   segments |-> <<[startIndex |-> startIndex, endIndex |-> endIndex]>>,
   confidence |-> conf]

cellName == Cell(0, 4, 950)
cellQty == Cell(5, 8, 900)
cellPen == Cell(9, 16, 800)
cellNumber == Cell(17, 0, absentCellConfidence)
cellBlank == Cell(12, 14, 700)
cellNoAnchor == [anchored |-> FALSE, segments |-> <<>>, confidence |-> absentCellConfidence]

Row(cells) == [hasCells |-> TRUE, cells |-> cells]

TableRows ==
  { Row(<<cellName, cellQty>>), Row(<<cellPen, cellNumber>>), Row(<<cellPen>>),
    Row(<<cellBlank, cellNoAnchor>>), [hasCells |-> FALSE, cells |-> <<>>],
    Row(<<cellNumber, cellBlank, cellName>>) }

HeaderRowChoices ==
  { <<>>, <<Row(<<cellName, cellQty>>)>>, <<Row(<<cellQty>>)>>,
    <<Row(<<cellName, cellQty>>), Row(<<cellQty, cellName>>)>> }

Tables(n) ==
  {[bodyRows |-> body, headerRows |-> hdr] : body \in [1..n -> TableRows], hdr \in HeaderRowChoices}

\* one page with one structured table and no lines
TableDocuments(n) ==
  {[text |-> TableText, hasPages |-> TRUE, pages |-> <<NoLinesPage>>,
    pageTables |-> <<<<t>>>>] : t \in Tables(n)}

(***************************************************************************)
(* State machine: one call of extractStructuredData                        *)
(***************************************************************************)
InitDocument ==
  /\ \/ \E n \in 0..MaxTextLines : document \in TextDocuments(n)
     \/ \E n \in 0..MaxBodyRows : document \in TableDocuments(n)
  /\ docPc = "call"
  /\ tables = <<>>
  /\ textTable = NullTable
  /\ ran = <<>>
  /\ SpatialIdle /\ KeysIdle /\ WaitIdle

\* the whole synchronous call: the structured tables, and only when there is
\* none the text extraction, whose non-null result is pushed
ExtractStructuredData ==
  /\ docPc = "call"
  /\ LET found == structuredTables(document)
         text == extractTextAsTable(document)
     IN  IF Len(found) = 0
         THEN /\ textTable' = text.table
              /\ ran' = text.ran
              /\ tables' = IF text.table.isNull THEN <<>> ELSE <<text.table>>
         ELSE /\ textTable' = NullTable
              /\ ran' = <<"tables">>
              /\ tables' = found
  /\ docPc' = "done"
  /\ UNCHANGED <<document, spatialVars, keyVars, waitVars>>

NextDocument == ExtractStructuredData

SpecDocument == InitDocument /\ [][NextDocument]_vars

DocDone == docPc = "done"

(***************************************************************************)
(* C22 The caller branches on null: extractTextAsTable runs the line-based *)
(*     fallback only after spatial reconstruction was skipped or returned  *)
(*     null, it returns the spatial table unchanged whenever spatial       *)
(*     reconstruction returns one, and extractStructuredData adds a table  *)
(*     to its result only when that chain returns non-null.                *)
(***************************************************************************)
\* what spatial reconstruction returns for the document, null when skipped
SpatialOutcome ==
  IF FirstPageHasLines(document) THEN spatialTextToTable(document.pages[1])
  ELSE NullTable

TextExtractionRan == DocDone /\ ran # <<"tables">>

C22_CallerBranchesOnNull ==
  TextExtractionRan =>
    /\ ran \in {<<"spatial">>, <<"spatial", "lines">>, <<"lines">>}
    /\ (ran[1] = "spatial") <=> FirstPageHasLines(document)
    /\ Includes(ran, "lines") <=> SpatialOutcome.isNull
    /\ ~SpatialOutcome.isNull => textTable = SpatialOutcome
    /\ SpatialOutcome.isNull => textTable = lineBasedTable(document.text)
    /\ tables = IF textTable.isNull THEN <<>> ELSE <<textTable>>

C22_Witness ==
  /\ TextExtractionRan
  /\ ran = <<"spatial">>
  /\ ~lineBasedTable(document.text).isNull
  /\ textTable.extracted = "spatial-clustering"
  /\ tables = <<textTable>>

(***************************************************************************)
(* C23 Row grouping partitions the fragments: every fragment is in exactly *)
(*     one row; rows come in ascending centerY order, every fragment of a  *)
(*     row being at most as low as every fragment of the next and the      *)
(*     lowest of a row at least 0.02 above the highest of the next; and    *)
(*     within a row the fragments are in ascending centerX order.          *)
(***************************************************************************)
\* how often block b occurs in the sequence s
Occurrences(b, s) == Cardinality({i \in DOMAIN s : s[i] = b})

C23_RowsPartitionFragments ==
  Done =>
    /\ Len(Flat(rows)) = Len(textBlocks)
    /\ \A b \in Range(textBlocks) \cup Range(Flat(rows)) :
         Occurrences(b, Flat(rows)) = Occurrences(b, textBlocks)
    /\ \A r \in DOMAIN rows : Len(rows[r]) >= 1
    /\ \A r \in 1..(Len(rows) - 1) :
         /\ \A a \in Range(rows[r]) : \A b \in Range(rows[r + 1]) : a.y <= b.y
         /\ \E a \in Range(rows[r]) :
              /\ \A c \in Range(rows[r]) : c.y <= a.y
              /\ \A b \in Range(rows[r + 1]) : b.y - a.y >= 20
    /\ \A r \in DOMAIN rows : \A i \in 1..(Len(rows[r]) - 1) :
         rows[r][i].x <= rows[r][i + 1].x

C23_Witness ==
  /\ Done
  /\ page.lines = Reverse(Grid3x3)
  /\ Len(rows) = 3
  /\ \A r \in DOMAIN rows : Len(rows[r]) = 3 /\ rows[r][1].x < rows[r][3].x
  /\ rows[1][1].y < rows[3][1].y

(***************************************************************************)
(* C24 The detected column boundaries are strictly increasing, consecutive *)
(*     boundaries differ by more than 0.03, the first boundary is the      *)
(*     smallest centerX, and the centerX of every fragment lies in         *)
(*     [b, b + 0.03] for some boundary b.                                  *)
(***************************************************************************)
C24_BoundariesCoverFragments ==
  (Done /\ Len(textBlocks) > 0) =>
    /\ \A k \in 1..(Len(columnStarts) - 1) :
         columnStarts[k + 1] - columnStarts[k] > 30
    /\ Len(columnStarts) >= 1
    /\ \A b \in Range(textBlocks) : columnStarts[1] <= b.x
    /\ \E b \in Range(textBlocks) : columnStarts[1] = b.x
    /\ \A b \in Range(textBlocks) :
         \E k \in DOMAIN columnStarts :
            columnStarts[k] <= b.x /\ b.x <= columnStarts[k] + 30

C24_Witness ==
  /\ Done
  /\ page.lines = NearColumnsScenario
  /\ columnStarts = <<100, 140>>
  /\ \E b \in Range(textBlocks) : b.x = 160

(***************************************************************************)
(* C25 In every non-null result rowCount is the length of rows (the data   *)
(*     rows, the promoted header row not counted), cellConfidences has the *)
(*     shape of rows, and the number of row clusters is rowCount plus one  *)
(*     when headers is non-null and rowCount otherwise.                    *)
(***************************************************************************)
C25_RowCountAndShape ==
  Returned =>
    /\ result.rowCount = Len(result.rows)
    /\ Len(result.cellConfidences) = Len(result.rows)
    /\ \A r \in DOMAIN result.rows :
         Len(result.cellConfidences[r]) = Len(result.rows[r])
    /\ Len(rows) = result.rowCount + (IF result.hasHeaders THEN 1 ELSE 0)

C25_Witness ==
  /\ Returned
  /\ page.lines = Grid3x3
  /\ result.hasHeaders
  /\ Len(rows) = 3
  /\ result.rowCount = 2
  /\ Len(result.cellConfidences) = 2

StructuredTablesFound == DocDone /\ ran = <<"tables">>

\* the table object the k-th entry of tables was extracted from
TableGiven(k) ==
  document.pageTables[tables[k].pageIndex + 1][tables[k].tableIndex + 1]

\* the header cells the table object gives explicitly
HeadersGiven(k) == explicitHeaders(TableGiven(k).headerRows, document.text)

C27_StructuredTableRectangular ==
  StructuredTablesFound =>
    \A k \in DOMAIN tables :
       LET t == tables[k].table
       IN  /\ t.rowCount = Len(t.rows)
           /\ Len(t.cellConfidences) = Len(t.rows)
           /\ \A r \in DOMAIN t.rows :
                /\ Len(t.rows[r]) = t.columnCount
                /\ Len(t.cellConfidences[r]) = t.columnCount
                /\ \E c \in DOMAIN t.rows[r] : t.rows[r][c] # <<>>
                /\ \E row \in Range(TableGiven(k).bodyRows) :
                     /\ padRow(rowCells(row, document.text), t.columnCount, <<>>) = t.rows[r]
                     /\ padRow(rowConfidences(row), t.columnCount, 0) = t.cellConfidences[r]
           /\ t.hasHeaders =>
                /\ Len(t.headers) = t.columnCount
                /\ \E h \in 0..t.columnCount :
                     /\ \/ SubSeq(t.headers, 1, h) = HeadersGiven(k)
                        \/ /\ HeadersGiven(k) = <<>>
                           /\ \E row \in Range(TableGiven(k).bodyRows) :
                                SubSeq(t.headers, 1, h) = rowCells(row, document.text)
                     /\ \A c \in (h + 1)..t.columnCount : t.headers[c] = ColumnName(c)

C27_Witness ==
  /\ StructuredTablesFound
  /\ TableGiven(1).headerRows = <<>>
  /\ Len(TableGiven(1).bodyRows) = 2
  /\ tables[1].table.headers =
       <<<<"N", "a", "m", "e">>, <<"Q", "t", "y">>, ColumnName(3)>>
  /\ tables[1].table.rows = <<<< <<"7", "0", "0", "1">>, <<>>, <<"N", "a", "m", "e">> >>>>
  /\ tables[1].table.cellConfidences = <<<<0, 700, 950>>>>

(***************************************************************************)
(* C28 (as claimed) The line-based fallback returns null when there is no  *)
(*     non-blank line or when no line splits into at least 2 cells;        *)
(*     otherwise every returned row, and headers when non-null, has        *)
(*     exactly columnCount entries, columnCount being the largest cell     *)
(*     count of any line.                                                  *)
(***************************************************************************)
FallbackRan == DocDone /\ Includes(ran, "lines")

\* the cell counts of the non-blank lines of the text
CellCounts ==
  LET lines == nonBlankLines(document.text)
  IN  [i \in DOMAIN lines |-> Len(cellsOfLine(lines[i]))]

\* the cell counts of the non-blank lines that have a non-empty cell
ContentCellCounts ==
  LET lines == SelectSeq(nonBlankLines(document.text),
                         LAMBDA line : SomeContent(cellsOfLine(line)))
  IN  [i \in DOMAIN lines |-> Len(cellsOfLine(lines[i]))]

FallbackShape(counts) ==
  /\ textTable.isNull <=> MaxOfSeq(counts) < 2
  /\ ~textTable.isNull =>
       /\ textTable.columnCount = MaxOfSeq(counts)
       /\ \A r \in DOMAIN textTable.rows :
            Len(textTable.rows[r]) = textTable.columnCount
       /\ textTable.hasHeaders => Len(textTable.headers) = textTable.columnCount
       /\ textTable.rowCount + (IF textTable.hasHeaders THEN 1 ELSE 0) = Len(counts)

C28_FallbackCountsEveryLine == FallbackRan => FallbackShape(CellCounts)

(***************************************************************************)
(* C28 (amended) Only the lines that have at least one non-empty cell make *)
(*     rows. The fallback returns null when no such line has at least 2    *)
(*     cells; otherwise every returned row, and headers when non-null, has *)
(*     exactly columnCount entries, columnCount being the largest cell     *)
(*     count of those lines, and shorter rows end in empty strings.        *)
(***************************************************************************)
C28_FallbackCountsLinesWithContent ==
  FallbackRan =>
    /\ FallbackShape(ContentCellCounts)
    /\ ~textTable.isNull =>
         LET all == IF textTable.hasHeaders
                    THEN <<textTable.headers>> \o textTable.rows
                    ELSE textTable.rows
         IN  \A r \in DOMAIN all :
                \A c \in (ContentCellCounts[r] + 1)..textTable.columnCount :
                   all[r][c] = <<>>

C28_Witness ==
  /\ FallbackRan
  /\ document.text = <<",", ",", "\n", "a", "\t", "b">>
  /\ CellCounts = <<3, 2>>
  /\ ~textTable.isNull
  /\ textTable.columnCount = 2
  /\ textTable.headers = <<<<"a">>, <<"b">>>>

(***************************************************************************)
(* API key rotation: GeminiOCRService.getNextClient and getNextKey         *)
(***************************************************************************)
\* MAX_REQUESTS_PER_KEY of the OCR service and of the caption service
ocrRequestsPerKey == 45
captionRequestsPerKey == 14

\* GEMINI_API_KEY_1 and GEMINI_API_KEY_2: at most two keys are configured
keySlots == 2

\* statusCode of the AppError thrown without keys
notConfiguredStatus == 500

\* variant: the key is rotated only once the limit is exceeded
rotateIfLimitExceeded(r) ==
  IF r.requestCount > r.limit
  THEN [r EXCEPT !.currentKeyIndex = (r.currentKeyIndex + 1) % r.count,
                 !.requestCount = 0]
  ELSE r

\* if (requestCount >= MAX_REQUESTS_PER_KEY) { rotate; requestCount = 0 }
rotateIfLimit(r) ==
  IF r.requestCount >= r.limit
  THEN [r EXCEPT !.currentKeyIndex = (r.currentKeyIndex + 1) % r.count,
                 !.requestCount = 0]
  ELSE r

\* the rotation state after a call with at least one key: requestCount++
\* follows the rotation
rotate(r) ==
  [rotateIfLimit(r) EXCEPT !.requestCount = rotateIfLimit(r).requestCount + 1]

InitKeys ==
  /\ \E n \in 0..keySlots :
        \/ rotation = [service |-> "ocr", count |-> n, limit |-> ocrRequestsPerKey,
                       currentKeyIndex |-> 0, requestCount |-> 0]
        \/ rotation = [service |-> "caption", count |-> n, limit |-> captionRequestsPerKey,
                       currentKeyIndex |-> 0, requestCount |-> 0]
  /\ handed = <<>>
  /\ keyError = 0
  /\ SpatialIdle /\ DocIdle /\ WaitIdle

\* one call; the key handed out is recorded by its index
nextKeyCall ==
  /\ Len(handed) < MaxKeyCalls
  /\ IF rotation.count = 0
     THEN /\ keyError' = notConfiguredStatus
          /\ UNCHANGED <<rotation, handed>>
     ELSE /\ rotation' = rotate(rotation)
          /\ handed' = Append(handed, rotate(rotation).currentKeyIndex)
          /\ keyError' = 0
  /\ UNCHANGED <<spatialVars, docVars, waitVars>>

GetNextClient == rotation.service = "ocr" /\ nextKeyCall

GetNextKey == rotation.service = "caption" /\ nextKeyCall

NextKeys == GetNextClient \/ GetNextKey

SpecKeys == InitKeys /\ [][NextKeys]_vars

(***************************************************************************)
(* C29 After any calls of getNextClient / getNextKey with n >= 1 keys the  *)
(*     key index is in 0..n-1 and requestCount in 1..MAX_REQUESTS_PER_KEY; *)
(*     the same key is handed out for exactly MAX_REQUESTS_PER_KEY calls   *)
(*     in a row (45 for OCR, 14 for captions), then the index advances by  *)
(*     one modulo n; without keys the call throws an AppError with status  *)
(*     500 and leaves index and counter as they were.                      *)
(***************************************************************************)
C29_KeyRotation ==
  /\ rotation.service = "ocr" => rotation.limit = 45
  /\ rotation.service = "caption" => rotation.limit = 14
  /\ (rotation.count >= 1 /\ Len(handed) >= 1) =>
       /\ rotation.currentKeyIndex \in 0..(rotation.count - 1)
       /\ rotation.requestCount \in 1..rotation.limit
       /\ keyError = 0
       /\ \A i \in DOMAIN handed :
            handed[i] = ((i - 1) \div rotation.limit) % rotation.count
       /\ handed[Len(handed)] = rotation.currentKeyIndex
  /\ (rotation.service # "none" /\ rotation.count = 0) =>
       /\ handed = <<>>
       /\ rotation.currentKeyIndex = 0 /\ rotation.requestCount = 0
       /\ keyError \in {0, 500}

C29_Witness ==
  /\ rotation.service = "ocr"
  /\ rotation.count = 2
  /\ Len(handed) = 91
  /\ handed[45] = 0 /\ handed[46] = 1 /\ handed[90] = 1 /\ handed[91] = 0
  /\ rotation.requestCount = 1

(***************************************************************************)
(* waitForFileActive (time in seconds)                                     *)
(***************************************************************************)
\* pollInterval = 2000 ms
pollInterval == 2

\* statusCode of the AppErrors thrown
processingFailedStatus == 500
timedOutStatus == 504

\* error.status of a lookup error: file not found, and some other error
notFoundStatus == 404
otherErrorStatus == 503

\* what a lookup can answer: a file with a state, or an error
FileStates == {"ACTIVE", "PROCESSING", "FAILED"}

\* a file in the given state, and a lookup error with the given status
fileInfo(state) == [error |-> FALSE, state |-> state, status |-> 0]

lookupError(status) == [error |-> TRUE, state |-> "none", status |-> status]

LookupAnswers ==
  {fileInfo(state) : state \in FileStates}
    \cup {lookupError(notFoundStatus), lookupError(otherErrorStatus)}

returnedFile(state) == [kind |-> "returned", state |-> state]

appError(statusCode) == [kind |-> "AppError", statusCode |-> statusCode]

\* variant: every file that has not failed is returned
lookupOutcomeNotFailed(answer) ==
  IF ~answer.error /\ answer.state = "FAILED" THEN appError(processingFailedStatus)
  ELSE IF ~answer.error THEN returnedFile(answer.state)
  ELSE IF answer.status = notFoundStatus THEN appError(processingFailedStatus)
  ELSE [kind |-> "rethrown", status |-> answer.status]

\* the body of the try/catch for one answer: how the call ends, or "none"
\* when the loop goes on. The AppError thrown for FAILED passes the catch:
\* it has a statusCode but no status, so it is rethrown as it is
lookupOutcome(answer) ==
  IF ~answer.error /\ answer.state = "ACTIVE" THEN returnedFile(answer.state)
  ELSE IF ~answer.error /\ answer.state = "FAILED" THEN appError(processingFailedStatus)
  ELSE IF ~answer.error THEN [kind |-> "none"]
  ELSE IF answer.status = notFoundStatus THEN appError(processingFailedStatus)
  ELSE [kind |-> "rethrown", status |-> answer.status]

InitWait ==
  /\ waitPc = "loop"
  /\ maxWaitTime \in 0..MaxWaitSeconds
  /\ elapsed = 0
  /\ lookup = fileInfo("none")
  /\ waitOutcome = [kind |-> "none"]
  /\ SpatialIdle /\ DocIdle /\ KeysIdle

\* while (Date.now() - startTime < maxWaitTime), and the throw after the loop
CheckDeadline ==
  /\ waitPc = "loop"
  /\ IF elapsed < maxWaitTime
     THEN /\ waitPc' = "lookup"
          /\ UNCHANGED waitOutcome
     ELSE /\ waitPc' = "thrown"
          /\ waitOutcome' = appError(timedOutStatus)
  /\ UNCHANGED <<maxWaitTime, elapsed, lookup, spatialVars, docVars, keyVars>>

\* await ai.files.get(...) settles, after some time, with a file or an error
LookupSettles ==
  /\ waitPc = "lookup"
  /\ \E answer \in LookupAnswers, took \in 0..MaxLookupSeconds :
        /\ lookup' = answer
        /\ elapsed' = elapsed + took
        /\ waitOutcome' = lookupOutcome(answer)
        /\ waitPc' = IF lookupOutcome(answer).kind = "none" THEN "sleep"
                     ELSE IF lookupOutcome(answer).kind = "returned" THEN "returned"
                     ELSE "thrown"
  /\ UNCHANGED <<maxWaitTime, spatialVars, docVars, keyVars>>

\* await new Promise(resolve => setTimeout(resolve, pollInterval))
TimerFires ==
  /\ waitPc = "sleep"
  /\ elapsed' = elapsed + pollInterval
  /\ waitPc' = "loop"
  /\ UNCHANGED <<maxWaitTime, lookup, waitOutcome, spatialVars, docVars, keyVars>>

NextWait == CheckDeadline \/ LookupSettles \/ TimerFires

SpecWait == InitWait /\ [][NextWait]_vars

\* the event loop runs every continuation that is ready, the timer fires,
\* and the lookup promise settles
SpecWaitFair ==
  /\ SpecWait
  /\ WF_vars(CheckDeadline) /\ WF_vars(LookupSettles) /\ WF_vars(TimerFires)

WaitEnded == waitPc \in {"returned", "thrown"}

(***************************************************************************)
(* C30 waitForFileActive always ends: it returns the file as soon as a     *)
(*     lookup reports ACTIVE, throws an AppError with status 500 when a    *)
(*     lookup reports FAILED or answers 404, rethrows any other lookup     *)
(*     error, and throws an AppError with status 504 once maxWaitTime has  *)
(*     elapsed without ACTIVE; it never returns a file that is not ACTIVE. *)
(***************************************************************************)
WaitOutcomeAsClaimed ==
  /\ waitPc = "returned" =>
       /\ lookup = fileInfo("ACTIVE")
       /\ waitOutcome = [kind |-> "returned", state |-> "ACTIVE"]
  /\ lookup = fileInfo("ACTIVE") => waitPc = "returned"
  /\ lookup \in {fileInfo("FAILED"), lookupError(404)} =>
       waitPc = "thrown" /\ waitOutcome = [kind |-> "AppError", statusCode |-> 500]
  /\ lookup = lookupError(503) =>
       waitPc = "thrown" /\ waitOutcome = [kind |-> "rethrown", status |-> 503]
  /\ (waitPc = "thrown" /\ lookup \in {fileInfo("none"), fileInfo("PROCESSING")}) =>
       /\ waitOutcome = [kind |-> "AppError", statusCode |-> 504]
       /\ elapsed >= maxWaitTime
  /\ ~WaitEnded => waitOutcome.kind = "none"

====
